---- MODULE Spec2Model ----
(***************************************************************************)
(* Model of src/hamiltonian_library/models.py: the HamiltonianBase         *)
(* template (name, params, H, to_json) and the build methods of the six    *)
(* model classes.  Matrices are computed exactly: a matrix entry is an     *)
(* element of Q(i, sqrt 2, sqrt 3, ...) and an operator is a sparse table  *)
(* of its nonzero entries together with its tensor dims, as in qutip.      *)
(***************************************************************************)
EXTENDS Integers, Sequences, FiniteSets, TLC

(***************************************************************************)
(* Evaluation helpers.  Eval1 and Eval2 apply F to arguments that are      *)
(* evaluated once, however often F uses them; List builds the n-element    *)
(* list F(1), ..., F(n) with its elements evaluated.                       *)
(***************************************************************************)
Eval1(F(_), a) == CHOOSE r \in {F(x) : x \in {a}} : TRUE

Eval2(F(_, _), a, b) == CHOOSE r \in {F(x, y) : x \in {a}, y \in {b}} : TRUE

List(n, F(_)) == SubSeq([k \in 1..n |-> F(k)], 1, n)

(***************************************************************************)
(* Exact scalars.  A scalar is a finite set of terms <<r, u, n, d>>, the   *)
(* term standing for (n/d) * sqrt(r) * i^u with r squarefree, u in {0,1},  *)
(* n # 0, d > 0 and gcd(|n|, d) = 1; no two terms share <<r, u>>.  The     *)
(* empty set is 0.  Python's floats and complex numbers are modelled by    *)
(* the exact values they approximate.                                      *)
(***************************************************************************)
Abs(n) == IF n < 0 THEN -n ELSE n

RECURSIVE GCD(_, _)
GCD(a, b) == IF b = 0 THEN a ELSE GCD(b, a % b)

Norm(n, d) == Eval1(LAMBDA g : <<n \div g, d \div g>>, GCD(Abs(n), d))

RAdd(p, q) == Norm(p[1] * q[2] + q[1] * p[2], p[2] * q[2])

Zero == {}

Rat(n, d) == IF n = 0 THEN Zero ELSE Eval1(LAMBDA q : {<<1, 0, q[1], q[2]>>}, Norm(n, d))

Num(n) == Rat(n, 1)

ImagUnit == {<<1, 1, 1, 1>>}

\* the rational coefficient of sqrt(k[1]) * i^k[2] in x
Coef(x, k) ==
    IF \E t \in x : t[1] = k[1] /\ t[2] = k[2]
    THEN LET t == CHOOSE t \in x : t[1] = k[1] /\ t[2] = k[2] IN <<t[3], t[4]>>
    ELSE <<0, 1>>

Keys(x) == {<<t[1], t[2]>> : t \in x}

\* x + y
NAdd(x, y) ==
    Eval2(LAMBDA u, v :
              IF u = {} THEN v
              ELSE IF v = {} THEN u
              ELSE {<<c[1], c[2], c[3][1], c[3][2]>> :
                       c \in {cc \in {<<k[1], k[2], RAdd(Coef(u, k), Coef(v, k))>> :
                                         k \in Keys(u) \cup Keys(v)} : cc[3][1] # 0}},
          x, y)

\* the product of two terms: sqrt(r1)*sqrt(r2) = g * sqrt((r1/g)*(r2/g)) with
\* g = gcd(r1, r2), and i*i = -1
TermMul(s, t) ==
    LET g == GCD(s[1], t[1])
        sgn == IF s[2] = 1 /\ t[2] = 1 THEN -1 ELSE 1
        q == Norm(sgn * g * s[3] * t[3], s[4] * t[4])
    IN  <<(s[1] \div g) * (t[1] \div g), (s[2] + t[2]) % 2, q[1], q[2]>>

RECURSIVE SumTerms(_)
SumTerms(P) ==
    IF P = {} THEN Zero
    ELSE Eval1(LAMBDA p : NAdd({TermMul(p[1], p[2])}, SumTerms(P \ {p})),
               CHOOSE p \in P : TRUE)

\* x * y
NMul(x, y) ==
    Eval2(LAMBDA u, v : IF u = {} \/ v = {} THEN Zero ELSE Eval1(SumTerms, u \X v), x, y)

\* the complex conjugate
NConj(x) == {<<t[1], t[2], IF t[2] = 1 THEN -t[3] ELSE t[3], t[4]>> : t \in x}

IsReal(x) == \A t \in x : t[2] = 0

\* numpy.sqrt(n) for an integer n >= 0: s * sqrt(n / s^2), s^2 the largest
\* square dividing n
Sqrt(n) ==
    IF n = 0 THEN Zero
    ELSE Eval1(LAMBDA s : {<<n \div (s * s), 0, s, 1>>},
               CHOOSE s \in 1..n :
                   /\ n % (s * s) = 0
                   /\ \A v \in (s + 1)..n : n % (v * v) # 0)

\* 1 / n**0.5 for an integer n >= 1
InvSqrt(n) == NMul(Sqrt(n), Rat(1, n))

(***************************************************************************)
(* Python values: None, the int 0 that seeds the running sums, and         *)
(* qutip.Qobj operators.  A Qobj carries its tensor dims and the set of    *)
(* its nonzero entries <<row, column, scalar>>, rows and columns counted   *)
(* from 0.                                                                 *)
(***************************************************************************)
None == [kind |-> "None"]

PyInt(x) == [kind |-> "int", val |-> x]

Qobj(dims, data) == [kind |-> "Qobj", dims |-> dims, data |-> data]

RECURSIVE Prod(_)
Prod(dims) == IF dims = <<>> THEN 1 ELSE Head(dims) * Prod(Tail(dims))

\* Qobj.shape: the operator is square, its side the product of its dims
shape(q) == Eval1(LAMBDA D : <<D, D>>, Prod(q.dims))

Entry(data, i, j) ==
    Eval1(LAMBDA hit : IF hit = {} THEN Zero ELSE (CHOOSE e \in hit : TRUE)[3],
          {e \in data : e[1] = i /\ e[2] = j})

Positions(data) == {<<e[1], e[2]>> : e \in data}

\* qutip.qeye(N)
qeye(N) == Qobj(<<N>>, {<<n, n, Num(1)>> : n \in 0..(N - 1)})

\* qutip.destroy(N): sqrt(n) on the first superdiagonal
destroy(N) == Qobj(<<N>>, {<<n - 1, n, Sqrt(n)>> : n \in 1..(N - 1)})

\* qutip.sigmax(), sigmay(), sigmaz()
sigmax == Qobj(<<2>>, {<<0, 1, Num(1)>>, <<1, 0, Num(1)>>})

sigmay == Qobj(<<2>>, {<<0, 1, NMul(Num(-1), ImagUnit)>>, <<1, 0, ImagUnit>>})

sigmaz == Qobj(<<2>>, {<<0, 0, Num(1)>>, <<1, 1, Num(-1)>>})

\* Qobj.dag(): the conjugate transpose
dag(q) == Eval1(LAMBDA v : Qobj(v.dims, {<<e[2], e[1], NConj(e[3])>> : e \in v.data}), q)

\* scalar * Qobj
Scale(c, q) ==
    Eval2(LAMBDA k, v :
              Qobj(v.dims,
                   IF k = Zero THEN {} ELSE {<<e[1], e[2], NMul(k, e[3])>> : e \in v.data}),
          c, q)

\* the entries of p + q given pc, the entries of p at positions q has too, and
\* qc, those of q at positions of p: an entry of one operand only is kept, one
\* of both is summed and kept unless the sum is 0
AddEntries(pdata, qdata, pc, qc) ==
    (pdata \ pc) \cup (qdata \ qc)
        \cup {e \in {<<f[1], f[2], NAdd(f[3], Entry(qc, f[1], f[2]))>> : f \in pc} :
                 e[3] # Zero}

\* Qobj + Qobj (equal dims)
QAdd(p, q) ==
    Eval2(LAMBDA x, y :
              Qobj(x.dims,
                   Eval2(LAMBDA pc, qc : AddEntries(x.data, y.data, pc, qc),
                         Eval1(LAMBDA Q : {e \in x.data : <<e[1], e[2]>> \in Q},
                               Positions(y.data)),
                         Eval1(LAMBDA P : {f \in y.data : <<f[1], f[2]>> \in P},
                               Positions(x.data)))),
          p, q)

\* the sum of the scalars of a set of products <<i, j, k, scalar>>
RECURSIVE SumProducts(_)
SumProducts(P) ==
    IF P = {} THEN Zero
    ELSE Eval1(LAMBDA p : NAdd(p[4], SumProducts(P \ {p})), CHOOSE p \in P : TRUE)

\* the entries of a matrix product given its products <<i, j, k, a_ik * b_kj>>:
\* entry (i, j) is their sum over k, kept unless it is 0
MulEntries(products) ==
    {e \in {<<k[1], k[2],
              Eval1(SumProducts, {pr \in products : pr[1] = k[1] /\ pr[2] = k[2]})>> :
                k \in {<<pr[1], pr[2]>> : pr \in products}} :
        e[3] # Zero}

\* Qobj * Qobj (equal dims): the matrix product
QMul(p, q) ==
    Eval2(LAMBDA x, y :
              Qobj(x.dims,
                   Eval1(MulEntries,
                         {<<pr[1][1], pr[2][2], pr[1][2], NMul(pr[1][3], pr[2][3])>> :
                             pr \in {pp \in x.data \X y.data : pp[1][2] = pp[2][1]}})),
          p, q)

\* the Kronecker product of two operators
Kron(p, q) ==
    Eval2(LAMBDA x, y :
              Eval1(LAMBDA D :
                        Qobj(x.dims \o y.dims,
                             {<<e[1] * D + f[1], e[2] * D + f[2], NMul(e[3], f[3])>> :
                                 e \in x.data, f \in y.data}),
                    Prod(y.dims)),
          p, q)

\* the Kronecker product of the first n operators of a list, left to right
RECURSIVE tensorTo(_, _)
tensorTo(ops, n) == IF n = 1 THEN ops[1] ELSE Kron(tensorTo(ops, n - 1), ops[n])

\* qutip.tensor(list), the list non-empty
tensor(ops) == Eval1(LAMBDA l : tensorTo(l, Len(l)), ops)

\* Qobj.isherm
isherm(q) == Eval1(LAMBDA v : dag(v).data = v.data, q)

(***************************************************************************)
(* Python's + on the values the build methods combine.                     *)
(***************************************************************************)
\* the identity on the space of q
IdentityLike(q) == tensor(List(Len(q.dims), LAMBDA k : qeye(q.dims[k])))

\* x + y: a number added to an operator is added on its diagonal (qutip), so
\* the int 0 that seeds a sum leaves the operator as it is
PyAdd(x, y) ==
    Eval2(LAMBDA u, v :
              IF u.kind = "Qobj" /\ v.kind = "Qobj" THEN QAdd(u, v)
              ELSE IF u.kind = "int" /\ v.kind = "Qobj"
                   THEN QAdd(Scale(u.val, IdentityLike(v)), v)
              ELSE IF u.kind = "Qobj" /\ v.kind = "int"
                   THEN QAdd(u, Scale(v.val, IdentityLike(u)))
              ELSE PyInt(NAdd(u.val, v.val)),
          x, y)

\* 0 + list[0] + ... + list[n-1]
RECURSIVE sumTo(_, _)
sumTo(list, n) == IF n = 0 THEN PyInt(Zero) ELSE PyAdd(sumTo(list, n - 1), list[n])

\* sum(list)
sum(list) == Eval1(LAMBDA l : sumTo(l, Len(l)), list)

\* the list [identity] * n with entry i (from 0) replaced by op
OpList(identity, n, i, op) == List(n, LAMBDA k : IF k = i + 1 THEN op ELSE identity)

\* the truth value of an attribute in "x if self.H else None": None and the
\* int 0 are false, a Qobj (which defines neither __bool__ nor __len__) is true
Truthy(v) ==
    IF v.kind = "None" THEN FALSE
    ELSE IF v.kind = "int" THEN v.val # Zero
    ELSE TRUE

\* the stored value of a key computed once per argument tuple
Lookup(memo, key) == (CHOOSE e \in memo : e[1] = key)[2]

(***************************************************************************)
(* The arguments the calls are drawn from.  Dimensions and counts start at *)
(* 1: the code accepts them, and 0 atoms or sites are left out.            *)
(***************************************************************************)
MaxCavity == 5

MaxAtoms == 2

MaxSpins == 3

MaxSites == 3

MaxLevels == 3

Cavities == 1..MaxCavity

Atoms == 1..MaxAtoms

Spins == 1..MaxSpins

Sites == 1..MaxSites

Levels == 1..MaxLevels

\* frequencies and interaction strengths (wc, wa, U), real
Frequencies == {Num(1), Rat(-3, 2)}

\* couplings (Jx, Jy, Jz), real
RealScalars == {Num(0), Num(1), Rat(-3, 2)}

\* couplings that may be complex (g, t)
Scalars == RealScalars \cup {NAdd(Num(1), ImagUnit)}

(***************************************************************************)
(* HamiltonianBase                                                         *)
(***************************************************************************)
EmptyDict == [x \in {} |-> x]

\* HamiltonianBase.__init__(name), params defaulted to None
HamiltonianBase(cls, name) ==
    [cls |-> cls, name |-> name, params |-> EmptyDict, H |-> None]

\* the instances of the portfolio
portfolio ==
    { HamiltonianBase("JaynesCummings", "Jaynes-Cummings"),
      HamiltonianBase("RabiModel", "Quantum-Rabi"),
      HamiltonianBase("TavisCummings", "Tavis-Cummings"),
      HamiltonianBase("DickeModel", "Dicke-Collective"),
      HamiltonianBase("HeisenbergSpinChain", "Heisenberg-Chain"),
      HamiltonianBase("BoseHubbard", "Bose-Hubbard-Lattice") }

\* str(self.H.shape)
ShapeStr(q) == "(" \o ToString(shape(q)[1]) \o ", " \o ToString(shape(q)[2]) \o ")"

\* the parameters that hold couplings and frequencies; the others are ints
ScalarKeys == {"wc", "wa", "g", "Jx", "Jy", "Jz", "t", "U"}

\* json.dumps accepts ints, floats, strings, booleans and None, not complex
Serializable(params) == \A k \in DOMAIN params \cap ScalarKeys : IsReal(params[k])

\* HamiltonianBase.to_json: the document json.dumps writes out, field by field,
\* or the TypeError it raises
to_json(slf) ==
    LET data == [model_name |-> slf.name,
                 parameters |-> slf.params,
                 matrix_shape |-> IF Truthy(slf.H) THEN [kind |-> "str", val |-> ShapeStr(slf.H)]
                                  ELSE None,
                 is_hermitian |-> IF Truthy(slf.H) THEN [kind |-> "bool", val |-> isherm(slf.H)]
                                  ELSE None]
    IN  IF Serializable(slf.params) THEN [exc |-> "none", val |-> data]
        ELSE [exc |-> "TypeError", val |-> None]

(***************************************************************************)
(* JaynesCummings.build                                                    *)
(***************************************************************************)
\* JaynesCummings_H with the coupling written g * (a.dag() * sm + a * sm)
JaynesCummings_H_lostDag(N, wc, wa, g) ==
    LET a == tensor(<<destroy(N), qeye(2)>>)
        sm == tensor(<<qeye(N), destroy(2)>>)
    IN  QAdd(QAdd(QMul(Scale(wc, dag(a)), a), QMul(Scale(wa, dag(sm)), sm)),
             Scale(g, QAdd(QMul(dag(a), sm), QMul(a, sm))))

JaynesCummings_H(N, wc, wa, g) ==
    LET a == tensor(<<destroy(N), qeye(2)>>)
        sm == tensor(<<qeye(N), destroy(2)>>)
    IN  QAdd(QAdd(QMul(Scale(wc, dag(a)), a), QMul(Scale(wa, dag(sm)), sm)),
             Scale(g, QAdd(QMul(dag(a), sm), QMul(a, dag(sm)))))

JaynesCummings_memo ==
    {<<p, JaynesCummings_H(p[1], p[2], p[3], p[4])>> :
        p \in Cavities \X Frequencies \X Frequencies \X Scalars}

JaynesCummings_build(slf, N, wc, wa, g) ==
    LET H == Lookup(JaynesCummings_memo, <<N, wc, wa, g>>)
    IN  [self |-> [slf EXCEPT !.params = [N |-> N, wc |-> wc, wa |-> wa, g |-> g],
                              !.H = H],
         exc |-> "none", val |-> H]

(***************************************************************************)
(* RabiModel.build                                                         *)
(***************************************************************************)
RabiModel_H(N, wc, wa, g) ==
    LET a == tensor(<<destroy(N), qeye(2)>>)
        sx == tensor(<<qeye(N), sigmax>>)
        sz == tensor(<<qeye(N), sigmaz>>)
    IN  QAdd(QAdd(QMul(Scale(wc, dag(a)), a), Scale(NMul(Rat(1, 2), wa), sz)),
             QMul(Scale(g, QAdd(dag(a), a)), sx))

RabiModel_memo ==
    {<<p, RabiModel_H(p[1], p[2], p[3], p[4])>> :
        p \in Cavities \X Frequencies \X Frequencies \X Scalars}

RabiModel_build(slf, N, wc, wa, g) ==
    LET H == Lookup(RabiModel_memo, <<N, wc, wa, g>>)
    IN  [self |-> [slf EXCEPT !.params = [N |-> N, wc |-> wc, wa |-> wa, g |-> g],
                              !.H = H],
         exc |-> "none", val |-> H]

(***************************************************************************)
(* TavisCummings.build                                                     *)
(***************************************************************************)
\* sz_tot (local = sigmaz) and sm_tot (local = destroy(2)) after the first i
\* rounds of the loop over the atoms
RECURSIVE TavisCummings_tot(_, _, _, _)
TavisCummings_tot(local, N_atoms, N_cavity, i) ==
    IF i = 0 THEN PyInt(Zero)
    ELSE PyAdd(TavisCummings_tot(local, N_atoms, N_cavity, i - 1),
               tensor(<<qeye(N_cavity)>> \o OpList(qeye(2), N_atoms, i - 1, local)))

\* (the operator a of line 68 is never used; a_field takes its place)
TavisCummings_H(N_atoms, N_cavity, wc, wa, g) ==
    LET sz_tot == TavisCummings_tot(sigmaz, N_atoms, N_cavity, N_atoms)
        sm_tot == TavisCummings_tot(destroy(2), N_atoms, N_cavity, N_atoms)
        a_field == tensor(<<destroy(N_cavity)>> \o List(N_atoms, LAMBDA k : qeye(2)))
    IN  QAdd(QAdd(QMul(Scale(wc, dag(a_field)), a_field),
                  Scale(NMul(Rat(1, 2), wa), sz_tot)),
             Scale(g, QAdd(QMul(dag(a_field), sm_tot), QMul(a_field, dag(sm_tot)))))

TavisCummings_memo ==
    {<<p, TavisCummings_H(p[1], p[2], p[3], p[4], p[5])>> :
        p \in Atoms \X Cavities \X Frequencies \X Frequencies \X Scalars}

TavisCummings_build(slf, N_atoms, N_cavity, wc, wa, g) ==
    LET H == Lookup(TavisCummings_memo, <<N_atoms, N_cavity, wc, wa, g>>)
    IN  [self |-> [slf EXCEPT !.params = [N_atoms |-> N_atoms, N_cavity |-> N_cavity,
                                          wc |-> wc, wa |-> wa, g |-> g],
                              !.H = H],
         exc |-> "none", val |-> H]

(***************************************************************************)
(* DickeModel.build                                                        *)
(***************************************************************************)
\* qutip's J+ for spin j = twoj/2, basis m = j, j-1, ..., -j: the entry at
\* (k, k+1) is sqrt(j(j+1) - m(m+1)) with m = j-k-1, that is
\* sqrt(twoj(twoj+2) - (twoj-2k-2)(twoj-2k)) / 2
jplus(twoj) ==
    Qobj(<<twoj + 1>>,
         {<<k, k + 1, NMul(Rat(1, 2),
                           Sqrt(twoj * (twoj + 2) - (twoj - 2 * k - 2) * (twoj - 2 * k)))>> :
             k \in 0..(twoj - 1)})

\* qutip.jmat(j, 'x') = 0.5 * (J+ + J-)
jmat_x(twoj) == Scale(Rat(1, 2), QAdd(jplus(twoj), dag(jplus(twoj))))

\* qutip.jmat(j, 'z') = diag(j, j-1, ..., -j)
jmat_z(twoj) ==
    Qobj(<<twoj + 1>>,
         {<<k, k, Rat(twoj - 2 * k, 2)>> : k \in {kk \in 0..twoj : twoj - 2 * kk # 0}})

\* DickeModel_H with j = N_atoms, the division by 2.0 lost
DickeModel_H_spinN(N_atoms, N_cavity, wc, wa, g) ==
    LET a == tensor(<<destroy(N_cavity), qeye(2 * N_atoms + 1)>>)
        jz == tensor(<<qeye(N_cavity), jmat_z(2 * N_atoms)>>)
        jx == tensor(<<qeye(N_cavity), jmat_x(2 * N_atoms)>>)
    IN  QAdd(QAdd(QMul(Scale(wc, dag(a)), a), Scale(wa, jz)),
             QMul(Scale(NMul(g, InvSqrt(N_atoms)), QAdd(dag(a), a)), jx))

\* j = N_atoms / 2.0, so 2j = N_atoms and int(2*j + 1) = N_atoms + 1
DickeModel_H(N_atoms, N_cavity, wc, wa, g) ==
    LET a == tensor(<<destroy(N_cavity), qeye(N_atoms + 1)>>)
        jz == tensor(<<qeye(N_cavity), jmat_z(N_atoms)>>)
        jx == tensor(<<qeye(N_cavity), jmat_x(N_atoms)>>)
    IN  QAdd(QAdd(QMul(Scale(wc, dag(a)), a), Scale(wa, jz)),
             QMul(Scale(NMul(g, InvSqrt(N_atoms)), QAdd(dag(a), a)), jx))

DickeModel_memo ==
    {<<p, DickeModel_H(p[1], p[2], p[3], p[4], p[5])>> :
        p \in Atoms \X Cavities \X Frequencies \X Frequencies \X Scalars}

DickeModel_build(slf, N_atoms, N_cavity, wc, wa, g) ==
    LET H == Lookup(DickeModel_memo, <<N_atoms, N_cavity, wc, wa, g>>)
    IN  [self |-> [slf EXCEPT !.params = [N_atoms |-> N_atoms, N_cavity |-> N_cavity,
                                          wc |-> wc, wa |-> wa, g |-> g],
                              !.H = H],
         exc |-> "none", val |-> H]

(***************************************************************************)
(* HeisenbergSpinChain.build                                               *)
(***************************************************************************)
\* sx_list[n], sy_list[n], sz_list[n]: the Pauli operator s at site n of N_spins
Heisenberg_site(s, N_spins, n) == tensor(OpList(qeye(2), N_spins, n, s))

\* the operator added to self.H in round n of the second loop
Heisenberg_term(N_spins, Jx, Jy, Jz, n) ==
    QAdd(QAdd(QMul(Scale(Jx, Heisenberg_site(sigmax, N_spins, n)),
                   Heisenberg_site(sigmax, N_spins, n + 1)),
              QMul(Scale(Jy, Heisenberg_site(sigmay, N_spins, n)),
                   Heisenberg_site(sigmay, N_spins, n + 1))),
         QMul(Scale(Jz, Heisenberg_site(sigmaz, N_spins, n)),
              Heisenberg_site(sigmaz, N_spins, n + 1)))

\* Heisenberg_range with the loop written "for n in range(N_spins - 2)"
Heisenberg_range_short(N_spins) == 0..(N_spins - 3)

\* the rounds of "for n in range(N_spins - 1)"
Heisenberg_range(N_spins) == 0..(N_spins - 2)

\* the operators added, in the order of the loop
Heisenberg_terms(N_spins, Jx, Jy, Jz) ==
    List(Cardinality(Heisenberg_range(N_spins)),
         LAMBDA k : Heisenberg_term(N_spins, Jx, Jy, Jz, k - 1))

Heisenberg_memo ==
    {<<p, Heisenberg_terms(p[1], p[2], p[3], p[4])>> :
        p \in Spins \X RealScalars \X RealScalars \X RealScalars}

\* Heisenberg_H0 with the reset skipped once the instance holds an operator
Heisenberg_H0_kept(slf) == IF slf.H.kind = "Qobj" THEN slf.H ELSE PyInt(Zero)

\* "self.H = 0": the value the sum starts from
Heisenberg_H0(slf) == PyInt(Zero)

\* "self.H += term" for the first k terms
RECURSIVE Heisenberg_accumulate(_, _, _)
Heisenberg_accumulate(H0, terms, k) ==
    IF k = 0 THEN H0
    ELSE PyAdd(Heisenberg_accumulate(H0, terms, k - 1), terms[k])

HeisenbergSpinChain_build(slf, N_spins, Jx, Jy, Jz) ==
    LET terms == Lookup(Heisenberg_memo, <<N_spins, Jx, Jy, Jz>>)
        H == Heisenberg_accumulate(Heisenberg_H0(slf), terms, Len(terms))
    IN  [self |-> [slf EXCEPT !.params = [N_spins |-> N_spins, Jx |-> Jx, Jy |-> Jy, Jz |-> Jz],
                              !.H = H],
         exc |-> "none", val |-> H]

(***************************************************************************)
(* BoseHubbard.build                                                       *)
(***************************************************************************)
\* a[j]: destroy(N_levels) at site j, the identity at the other sites
BoseHubbard_a(N_sites, N_levels, j) ==
    tensor(OpList(qeye(N_levels), N_sites, j, destroy(N_levels)))

BoseHubbard_hop(N_sites, N_levels, t, i) ==
    LET ai == BoseHubbard_a(N_sites, N_levels, i)
        aj == BoseHubbard_a(N_sites, N_levels, i + 1)
    IN  Scale(NMul(Num(-1), t), QAdd(QMul(dag(ai), aj), QMul(dag(aj), ai)))

\* BoseHubbard_int with the factors ordered a.dag() * a * a.dag() * a
BoseHubbard_int_nn(N_sites, N_levels, U, i) ==
    LET ai == BoseHubbard_a(N_sites, N_levels, i)
    IN  QMul(QMul(QMul(Scale(NMul(Rat(1, 2), U), dag(ai)), ai), dag(ai)), ai)

BoseHubbard_int(N_sites, N_levels, U, i) ==
    LET ai == BoseHubbard_a(N_sites, N_levels, i)
    IN  QMul(QMul(QMul(Scale(NMul(Rat(1, 2), U), dag(ai)), dag(ai)), ai), ai)

BoseHubbard_H(N_sites, N_levels, t, U) ==
    LET H_hop == sum(List(N_sites - 1, LAMBDA k : BoseHubbard_hop(N_sites, N_levels, t, k - 1)))
        H_int == sum(List(N_sites, LAMBDA k : BoseHubbard_int(N_sites, N_levels, U, k - 1)))
    IN  PyAdd(H_hop, H_int)

BoseHubbard_memo ==
    {<<p, BoseHubbard_H(p[1], p[2], p[3], p[4])>> :
        p \in Sites \X Levels \X Scalars \X Frequencies}

BoseHubbard_build(slf, N_sites, N_levels, t, U) ==
    LET H == Lookup(BoseHubbard_memo, <<N_sites, N_levels, t, U>>)
    IN  [self |-> [slf EXCEPT !.params = [N_sites |-> N_sites, N_levels |-> N_levels,
                                          t |-> t, U |-> U],
                              !.H = H],
         exc |-> "none", val |-> H]

\* build of the instance's class on the arguments recorded in params p
BuildOn(slf, p) ==
    IF slf.cls = "JaynesCummings" THEN JaynesCummings_build(slf, p.N, p.wc, p.wa, p.g)
    ELSE IF slf.cls = "RabiModel" THEN RabiModel_build(slf, p.N, p.wc, p.wa, p.g)
    ELSE IF slf.cls = "TavisCummings"
         THEN TavisCummings_build(slf, p.N_atoms, p.N_cavity, p.wc, p.wa, p.g)
    ELSE IF slf.cls = "DickeModel"
         THEN DickeModel_build(slf, p.N_atoms, p.N_cavity, p.wc, p.wa, p.g)
    ELSE IF slf.cls = "HeisenbergSpinChain"
         THEN HeisenbergSpinChain_build(slf, p.N_spins, p.Jx, p.Jy, p.Jz)
    ELSE BoseHubbard_build(slf, p.N_sites, p.N_levels, p.t, p.U)

(***************************************************************************)
(* The state: one model instance, the outcome of the last call on it, the  *)
(* most recent build that returned, and the number of builds so far,       *)
(* counted up to MaxBuilds.                                                *)
(***************************************************************************)
MaxBuilds == 2

VARIABLES self, ret, last, builds

vars == <<self, ret, last, builds>>

Init ==
    /\ self \in portfolio
    /\ ret = [op |-> "__init__", exc |-> "none", val |-> None]
    /\ last = None
    /\ builds = 0

\* a call of build with outcome r
Built(r) ==
    /\ self' = r.self
    /\ ret' = [op |-> "build", exc |-> r.exc, val |-> r.val]
    /\ last' = IF r.exc = "none" THEN [kind |-> "build", params |-> r.self.params, val |-> r.val]
               ELSE last
    /\ builds' = IF builds < MaxBuilds THEN builds + 1 ELSE builds

JaynesCummingsBuild ==
    \E N \in Cavities, wc \in Frequencies, wa \in Frequencies, g \in Scalars :
        /\ self.cls = "JaynesCummings"
        /\ Built(JaynesCummings_build(self, N, wc, wa, g))

RabiModelBuild ==
    \E N \in Cavities, wc \in Frequencies, wa \in Frequencies, g \in Scalars :
        /\ self.cls = "RabiModel"
        /\ Built(RabiModel_build(self, N, wc, wa, g))

TavisCummingsBuild ==
    \E N_atoms \in Atoms, N_cavity \in Cavities, wc \in Frequencies, wa \in Frequencies,
       g \in Scalars :
        /\ self.cls = "TavisCummings"
        /\ Built(TavisCummings_build(self, N_atoms, N_cavity, wc, wa, g))

DickeModelBuild ==
    \E N_atoms \in Atoms, N_cavity \in Cavities, wc \in Frequencies, wa \in Frequencies,
       g \in Scalars :
        /\ self.cls = "DickeModel"
        /\ Built(DickeModel_build(self, N_atoms, N_cavity, wc, wa, g))

HeisenbergSpinChainBuild ==
    \E N_spins \in Spins, Jx \in RealScalars, Jy \in RealScalars, Jz \in RealScalars :
        /\ self.cls = "HeisenbergSpinChain"
        /\ Built(HeisenbergSpinChain_build(self, N_spins, Jx, Jy, Jz))

BoseHubbardBuild ==
    \E N_sites \in Sites, N_levels \in Levels, t \in Scalars, U \in Frequencies :
        /\ self.cls = "BoseHubbard"
        /\ Built(BoseHubbard_build(self, N_sites, N_levels, t, U))

ToJson ==
    /\ ret' = Eval1(LAMBDA r : [op |-> "to_json", exc |-> r.exc, val |-> r.val], to_json(self))
    /\ UNCHANGED <<self, last, builds>>

Next ==
    \/ JaynesCummingsBuild
    \/ RabiModelBuild
    \/ TavisCummingsBuild
    \/ DickeModelBuild
    \/ HeisenbergSpinChainBuild
    \/ BoseHubbardBuild
    \/ ToJson

Spec == Init /\ [][Next]_vars

(***************************************************************************)
(* Properties                                                              *)
(***************************************************************************)
\* the last call was a build, which returned
BuildReturned == ret.op = "build" /\ ret.exc = "none"

RealParams(p) == \A k \in DOMAIN p \cap ScalarKeys : IsReal(p[k])

\* the parameters the models accept: every subsystem dimension at least 2, at
\* least one atom, at least two sites, real couplings
ValidParams(cls, p) ==
    /\ RealParams(p)
    /\ IF cls \in {"JaynesCummings", "RabiModel"} THEN p.N >= 2
       ELSE IF cls \in {"TavisCummings", "DickeModel"} THEN p.N_cavity >= 2 /\ p.N_atoms >= 1
       ELSE IF cls = "HeisenbergSpinChain" THEN p.N_spins >= 2
       ELSE p.N_sites >= 2 /\ p.N_levels >= 2

RECURSIVE Pow(_, _)
Pow(b, e) == IF e = 0 THEN 1 ELSE b * Pow(b, e - 1)

\* the product of the subsystem dimensions of each model
TotalDimension(cls, p) ==
    IF cls \in {"JaynesCummings", "RabiModel"} THEN 2 * p.N
    ELSE IF cls = "TavisCummings" THEN p.N_cavity * Pow(2, p.N_atoms)
    ELSE IF cls = "DickeModel" THEN p.N_cavity * (p.N_atoms + 1)
    ELSE IF cls = "HeisenbergSpinChain" THEN Pow(2, p.N_spins)
    ELSE Pow(p.N_levels, p.N_sites)

\* C1: TavisCummings.build with N_atoms = 1, N_cavity >= 2 and real wc, wa, g
\* returns, entry for entry and with the same dims, the operator
\* JaynesCummings.build returns for N = N_cavity and the same wc, wa, g.
C1_OneAtomEqualsJaynesCummings ==
    (/\ BuildReturned
     /\ self.cls = "TavisCummings"
     /\ self.params.N_atoms = 1
     /\ self.params.N_cavity >= 2
     /\ RealParams(self.params))
    => ret.val = JaynesCummings_H(self.params.N_cavity, self.params.wc, self.params.wa,
                                  self.params.g)

\* C2: for valid parameters the operator build returns, for each of the six
\* models, equals its own conjugate transpose.
C2_Hermitian ==
    (BuildReturned /\ ValidParams(self.cls, self.params))
    => (ret.val.kind = "Qobj" /\ isherm(ret.val))

\* a build of the Dicke model with two atoms, a cavity of dimension 3 or more
\* and a nonzero real coupling has returned
C2_Witness ==
    /\ BuildReturned
    /\ self.cls = "DickeModel"
    /\ ValidParams(self.cls, self.params)
    /\ self.params.N_atoms = 2
    /\ self.params.N_cavity >= 3
    /\ self.params.g # Zero

\* C3: HeisenbergSpinChain.build with N_spins = 1 and BoseHubbard.build with
\* N_sites = 1 fail with InsufficientSubsystems, return nothing and leave the
\* instance's H as it was.
C3_SingleSiteFails ==
    (/\ ret.op = "build"
     /\ \/ self.cls = "HeisenbergSpinChain" /\ self.params.N_spins = 1
        \/ self.cls = "BoseHubbard" /\ self.params.N_sites = 1)
    => (/\ ret.exc = "InsufficientSubsystems"
        /\ ret.val = None
        /\ self.H = IF last.kind = "build" THEN last.val ELSE None)

\* C4: build fails with InvalidDimension, returning no operator, when a
\* subsystem dimension it is given (N, N_cavity, N_levels) is below 2.
C4_SmallDimensionFails ==
    (/\ ret.op = "build"
     /\ \/ self.cls \in {"JaynesCummings", "RabiModel"} /\ self.params.N < 2
        \/ self.cls \in {"TavisCummings", "DickeModel"} /\ self.params.N_cavity < 2
        \/ self.cls = "BoseHubbard" /\ self.params.N_levels < 2)
    => (ret.exc = "InvalidDimension" /\ ret.val = None)

\* C5: no build returns, or leaves in the instance's H, an operator that is not
\* Hermitian.
C5_NeverNonHermitian ==
    /\ (BuildReturned /\ ret.val.kind = "Qobj") => isherm(ret.val)
    /\ self.H.kind = "Qobj" => isherm(self.H)

\* the joint embedding of s at sites n and n+1 of N_spins, the identity elsewhere
EmbedJoint(N_spins, n, s) ==
    tensor(List(N_spins, LAMBDA k : IF k = n + 1 \/ k = n + 2 THEN s ELSE qeye(2)))

\* the bond term of sites n and n+1 from joint embeddings
Bond(N_spins, Jx, Jy, Jz, n) ==
    QAdd(QAdd(Scale(Jx, EmbedJoint(N_spins, n, sigmax)),
              Scale(Jy, EmbedJoint(N_spins, n, sigmay))),
         Scale(Jz, EmbedJoint(N_spins, n, sigmaz)))

\* the sum of the bond terms of sites 0..m+1
RECURSIVE BondSum(_, _, _, _, _)
BondSum(N_spins, Jx, Jy, Jz, m) ==
    IF m = 0 THEN Bond(N_spins, Jx, Jy, Jz, 0)
    ELSE QAdd(BondSum(N_spins, Jx, Jy, Jz, m - 1), Bond(N_spins, Jx, Jy, Jz, m))

\* C6: for N_spins = M >= 2, HeisenbergSpinChain.build adds exactly M-1 terms
\* and returns the 2^M x 2^M sum over n in 0..M-2 of the bond terms built from
\* the joint embeddings of the Pauli operators at sites n and n+1.
C6_NearestNeighbourBonds ==
    (BuildReturned /\ self.cls = "HeisenbergSpinChain" /\ self.params.N_spins >= 2)
    => Eval1(LAMBDA p :
                 /\ Len(Heisenberg_terms(p.N_spins, p.Jx, p.Jy, p.Jz)) = p.N_spins - 1
                 /\ ret.val = BondSum(p.N_spins, p.Jx, p.Jy, p.Jz, p.N_spins - 2)
                 /\ shape(ret.val) = <<Pow(2, p.N_spins), Pow(2, p.N_spins)>>,
             self.params)

\* a build of a chain of three spins with all three couplings nonzero has returned
C6_Witness ==
    /\ BuildReturned
    /\ self.cls = "HeisenbergSpinChain"
    /\ self.params.N_spins = 3
    /\ self.params.Jx # Zero /\ self.params.Jy # Zero /\ self.params.Jz # Zero
    /\ shape(ret.val) = <<8, 8>>

\* the occupation of site i in basis state b of N_sites sites with N_levels levels
Occupation(b, i, N_sites, N_levels) == (b \div Pow(N_levels, N_sites - 1 - i)) % N_levels

\* the sum over the sites 0..i of 0.5 * U * n * (n - 1) in basis state b
RECURSIVE OnSiteEnergy(_, _, _, _, _)
OnSiteEnergy(b, i, N_sites, N_levels, U) ==
    Eval1(LAMBDA n :
              NAdd(IF i = 0 THEN Zero ELSE OnSiteEnergy(b, i - 1, N_sites, N_levels, U),
                   NMul(Rat(n * (n - 1), 2), U)),
          Occupation(b, i, N_sites, N_levels))

\* C7: for N_sites >= 2 and N_levels >= 2, BoseHubbard.build with t = 0 returns
\* an operator with no entry off the diagonal, whose diagonal entry at the basis
\* state of occupations (n_0, ..., n_{M-1}) is the sum of 0.5 * U * n_i * (n_i - 1).
C7_DiagonalWithoutHopping ==
    (/\ BuildReturned
     /\ self.cls = "BoseHubbard"
     /\ self.params.t = Zero
     /\ self.params.N_sites >= 2
     /\ self.params.N_levels >= 2)
    => Eval2(LAMBDA p, H :
                 /\ H.kind = "Qobj"
                 /\ \A e \in H.data : e[1] = e[2]
                 /\ \A b \in 0..(Pow(p.N_levels, p.N_sites) - 1) :
                        Entry(H.data, b, b)
                            = OnSiteEnergy(b, p.N_sites - 1, p.N_sites, p.N_levels, p.U),
             self.params, ret.val)

\* a build without hopping on two or more sites of three levels has returned an
\* operator that is not 0
C7_Witness ==
    /\ BuildReturned
    /\ self.cls = "BoseHubbard"
    /\ self.params.t = Zero
    /\ self.params.N_sites >= 2
    /\ self.params.N_levels >= 3
    /\ ret.val.data # {}

\* C8: the operator build returns is square, its side the product of the
\* subsystem dimensions of the model, and every entry lies within it.
C8_Shape ==
    (BuildReturned /\ ret.val.kind = "Qobj")
    => Eval1(LAMBDA D :
                 /\ shape(ret.val) = <<D, D>>
                 /\ \A e \in ret.val.data : e[1] \in 0..(D - 1) /\ e[2] \in 0..(D - 1),
             TotalDimension(self.cls, self.params))

\* a build of the Dicke model with two atoms has returned an operator of side
\* 3 * N_cavity
C8_Witness ==
    /\ BuildReturned
    /\ self.cls = "DickeModel"
    /\ self.params.N_atoms = 2
    /\ self.params.N_cavity >= 2
    /\ shape(ret.val) = <<3 * self.params.N_cavity, 3 * self.params.N_cavity>>

\* C9: whatever builds came before, the value build returns and the H it
\* leaves are those the same call gives on a freshly constructed instance.
C9_HistoryIndependent ==
    last.kind = "build"
    => Eval1(LAMBDA fresh :
                 /\ fresh.val = last.val
                 /\ fresh.self.H = self.H
                 /\ fresh.self.params = self.params
                 /\ BuildReturned => ret.val = fresh.val,
             BuildOn(HamiltonianBase(self.cls, self.name), last.params))

\* a chain of three spins was built on an instance that had been built before
C9_Witness ==
    /\ BuildReturned
    /\ builds >= 2
    /\ self.cls = "HeisenbergSpinChain"
    /\ self.params.N_spins = 3
    /\ self.params.Jz # Zero

\* C10: before the first build to_json reports matrix_shape and is_hermitian as
\* null; after builds that returned, H and params are those of the most recent
\* build and to_json reports its parameters with a non-null matrix_shape and a
\* non-null is_hermitian flag describing that operator.
C10_ToJsonReportsLastBuild ==
    /\ (ret.op = "to_json" /\ last.kind = "None")
       => (/\ ret.exc = "none"
           /\ ret.val.matrix_shape = None
           /\ ret.val.is_hermitian = None)
    /\ last.kind = "build" => (self.H = last.val /\ self.params = last.params)
    /\ (ret.op = "to_json" /\ last.kind = "build")
       => (/\ ret.exc = "none"
           /\ ret.val.parameters = last.params
           /\ ret.val.matrix_shape # None
           /\ ret.val.is_hermitian # None
           /\ ret.val.matrix_shape.val = ShapeStr(last.val)
           /\ ret.val.is_hermitian.val = isherm(last.val))
====
